---- MODULE Spec2Model ----
(***************************************************************************)
(* Model of the LLM proxy server (server.js): the POST /api/query handler, *)
(* callClaude's classification of upstream failures, and the response     *)
(* normaliser formatForMobile / parseTextResponse.                         *)
(*                                                                         *)
(* A JavaScript string is a sequence of one-character strings.  The       *)
(* character U+2022 (the round bullet) is written "U+2022" and counts as   *)
(* one character.  A JavaScript value is a tagged record (see JS values).  *)
(***************************************************************************)
EXTENDS Integers, Sequences, FiniteSets, TLC

VARIABLES pc, body, calls, upstream, thrown, responses

vars == <<pc, body, calls, upstream, thrown, responses>>

(***************************************************************************)
(* JS values                                                               *)
(***************************************************************************)
Undefined == [t |-> "undefined"]
Null == [t |-> "null"]
NaN == [t |-> "nan"]
Bool(b) == [t |-> "bool", b |-> b]
\* a number is the decimal m / 10^d, kept normalised (no trailing zero digit)
Num(m, d) == [t |-> "num", m |-> m, d |-> d]
IntNum(n) == Num(n, 0)
Str(s) == [t |-> "str", s |-> s]
Arr(a) == [t |-> "arr", a |-> a]
\* an object is the sequence of its properties [k |-> name, v |-> value]
Obj(o) == [t |-> "obj", o |-> o]
Prop(k, v) == [k |-> k, v |-> v]

\* JS truthiness, as used by the || and ! operators
Truthy(v) ==
    CASE v.t = "undefined" -> FALSE
      [] v.t = "null" -> FALSE
      [] v.t = "nan" -> FALSE
      [] v.t = "bool" -> v.b
      [] v.t = "num" -> v.m # 0
      [] v.t = "str" -> v.s # <<>>
      [] OTHER -> TRUE

\* a || b
Or(a, b) == IF Truthy(a) THEN a ELSE b

\* reading a property of null or undefined throws a TypeError
GetThrows(v) == v.t \in {"undefined", "null"}

\* v[k] for a value that is not null or undefined; the last property wins
Get(v, k) ==
    IF v.t # "obj" THEN Undefined
    ELSE LET hits == {i \in 1..Len(v.o) : v.o[i].k = k}
         IN IF hits = {} THEN Undefined
            ELSE v.o[CHOOSE i \in hits : \A j \in hits : j <= i].v

\* v[0] for a value that is not null or undefined
First(v) ==
    CASE v.t = "arr" -> IF Len(v.a) > 0 THEN v.a[1] ELSE Undefined
      [] v.t = "str" -> IF Len(v.s) > 0 THEN Str(<<v.s[1]>>) ELSE Undefined
      [] OTHER -> Undefined

(***************************************************************************)
(* Strings                                                                 *)
(***************************************************************************)
chBullet == "U+2022"
chNewline == "\n"
chQuote == "\""
WhiteSpace == {" ", "\t", "\r", "\n"}
Digits == {"0", "1", "2", "3", "4", "5", "6", "7", "8", "9"}
Ellipsis == <<".", ".", ".">>

kSummaryPoints == <<"s", "u", "m", "m", "a", "r", "y", "_", "p", "o", "i", "n", "t", "s">>
kDetailedFlow == <<"d", "e", "t", "a", "i", "l", "e", "d", "_", "f", "l", "o", "w">>
kCodeSnippets == <<"c", "o", "d", "e", "_", "s", "n", "i", "p", "p", "e", "t", "s">>
kConfidence == <<"c", "o", "n", "f", "i", "d", "e", "n", "c", "e">>
kContent == <<"c", "o", "n", "t", "e", "n", "t">>
kText == <<"t", "e", "x", "t">>
sResponseReceived == <<"R", "e", "s", "p", "o", "n", "s", "e", " ", "r", "e", "c", "e", "i", "v", "e", "d">>
sErrorProcessing == <<"E", "r", "r", "o", "r", " ", "p", "r", "o", "c", "e", "s", "s", "i", "n", "g", " ", "r", "e", "s", "p", "o", "n", "s", "e">>
sUnableToFormat == <<"U", "n", "a", "b", "l", "e", " ", "t", "o", " ", "f", "o", "r", "m", "a", "t", " ", "r", "e", "s", "p", "o", "n", "s", "e", " ", "p", "r", "o", "p", "e", "r", "l", "y">>

MinOf(a, b) == IF a <= b THEN a ELSE b

\* s.substring(from, to), 0 <= from <= to
substring(s, from, to) == SubSeq(s, from + 1, MinOf(to, Len(s)))

\* the index of the first character at or after i that is not white space
RECURSIVE SkipWs(_, _)
SkipWs(s, i) == IF i <= Len(s) /\ s[i] \in WhiteSpace THEN SkipWs(s, i + 1) ELSE i

\* the index of the last character at or before i that is not white space
RECURSIVE SkipWsBack(_, _)
SkipWsBack(s, i) == IF i >= 1 /\ s[i] \in WhiteSpace THEN SkipWsBack(s, i - 1) ELSE i

\* s.trim()
trim(s) == SubSeq(s, SkipWs(s, 1), SkipWsBack(s, Len(s)))

\* the index of the first sep at or after i, Len(s) + 1 when there is none
IndexOf(s, sep, i) ==
    LET at == {j \in i..Len(s) : s[j] = sep}
    IN IF at = {} THEN Len(s) + 1 ELSE CHOOSE j \in at : \A k \in at : j <= k

\* s.split("\n") on the part of s from index i on
RECURSIVE splitFrom(_, _)
splitFrom(s, i) ==
    LET j == IndexOf(s, chNewline, i)
    IN IF j > Len(s) THEN <<SubSeq(s, i, Len(s))>>
       ELSE <<SubSeq(s, i, j - 1)>> \o splitFrom(s, j + 1)

split(s) == splitFrom(s, 1)

\* a.filter((line) => line.trim())
RECURSIVE filterNonBlank(_)
filterNonBlank(a) ==
    IF a = <<>> THEN <<>>
    ELSE (IF trim(Head(a)) # <<>> THEN <<Head(a)>> ELSE <<>>) \o filterNonBlank(Tail(a))

(***************************************************************************)
(* JSON.parse, for the JSON grammar without string escapes and exponents.  *)
(* A parse step returns [ok, v, i]: whether it succeeded, the value, and   *)
(* the index after the text it consumed.                                   *)
(***************************************************************************)
ParseFail == [ok |-> FALSE, v |-> Undefined, i |-> 0]
ParseOk(v, i) == [ok |-> TRUE, v |-> v, i |-> i]

DigitVal(c) ==
    CASE c = "0" -> 0 [] c = "1" -> 1 [] c = "2" -> 2 [] c = "3" -> 3
      [] c = "4" -> 4 [] c = "5" -> 5 [] c = "6" -> 6 [] c = "7" -> 7
      [] c = "8" -> 8 [] c = "9" -> 9

\* the index of the first character at or after i that is not a digit
RECURSIVE DigitsEnd(_, _)
DigitsEnd(s, i) == IF i <= Len(s) /\ s[i] \in Digits THEN DigitsEnd(s, i + 1) ELSE i

\* the value of the digits s[i..j-1] appended to the number acc
RECURSIVE DigitsVal(_, _, _, _)
DigitsVal(s, i, j, acc) ==
    IF i >= j THEN acc ELSE DigitsVal(s, i + 1, j, 10 * acc + DigitVal(s[i]))

RECURSIVE Normalise(_, _)
Normalise(m, d) == IF d > 0 /\ m % 10 = 0 THEN Normalise(m \div 10, d - 1) ELSE Num(m, d)

\* -? (0 | [1-9][0-9]*) (\. [0-9]+)?
ParseNumber(s, i) ==
    LET neg == i <= Len(s) /\ s[i] = "-"
        a == IF neg THEN i + 1 ELSE i
        b == DigitsEnd(s, a)
        frac == b <= Len(s) /\ s[b] = "."
        c == IF frac THEN DigitsEnd(s, b + 1) ELSE b
        m == DigitsVal(s, b + 1, c, DigitsVal(s, a, b, 0))
    IN IF b = a \/ (s[a] = "0" /\ b > a + 1) \/ (frac /\ c = b + 1) THEN ParseFail
       ELSE ParseOk(Normalise(IF neg THEN 0 - m ELSE m, IF frac THEN c - b - 1 ELSE 0), c)

\* the index of the closing quote of the string whose text starts at i, 0 when
\* the string is not closed or holds a control character
RECURSIVE StringEnd(_, _)
StringEnd(s, i) ==
    IF i > Len(s) \/ s[i] \in {"\n", "\r", "\t"} THEN 0
    ELSE IF s[i] = chQuote THEN i
    ELSE StringEnd(s, i + 1)

ParseString(s, i) ==
    IF i > Len(s) \/ s[i] # chQuote THEN ParseFail
    ELSE LET e == StringEnd(s, i + 1)
         IN IF e = 0 THEN ParseFail ELSE ParseOk(Str(SubSeq(s, i + 1, e - 1)), e + 1)

ParseLiteral(s, i, word, v) ==
    IF SubSeq(s, i, MinOf(Len(s), i + Len(word) - 1)) = word
    THEN ParseOk(v, i + Len(word))
    ELSE ParseFail

RECURSIVE ParseValue(_, _)
RECURSIVE ParseElements(_, _, _)
RECURSIVE ParseMembers(_, _, _)

\* the elements of an array, the first of them starting at i
ParseElements(s, i, acc) ==
    LET v == ParseValue(s, i)
        e == SkipWs(s, v.i)
    IN IF ~v.ok \/ e > Len(s) THEN ParseFail
       ELSE IF s[e] = "," THEN ParseElements(s, e + 1, Append(acc, v.v))
       ELSE IF s[e] = "]" THEN ParseOk(Arr(Append(acc, v.v)), e + 1)
       ELSE ParseFail

\* the members of an object, the first of them starting at i
ParseMembers(s, i, acc) ==
    LET k == ParseString(s, SkipWs(s, i))
        c == SkipWs(s, k.i)
        v == ParseValue(s, c + 1)
        e == SkipWs(s, v.i)
    IN IF ~k.ok \/ c > Len(s) \/ s[c] # ":" THEN ParseFail
       ELSE IF ~v.ok \/ e > Len(s) THEN ParseFail
       ELSE IF s[e] = "," THEN ParseMembers(s, e + 1, Append(acc, Prop(k.v.s, v.v)))
       ELSE IF s[e] = "}" THEN ParseOk(Obj(Append(acc, Prop(k.v.s, v.v))), e + 1)
       ELSE ParseFail

ParseValue(s, i0) ==
    LET i == SkipWs(s, i0)
        n == SkipWs(s, i + 1)
    IN IF i > Len(s) THEN ParseFail
       ELSE CASE s[i] = "{" ->
                   IF n <= Len(s) /\ s[n] = "}" THEN ParseOk(Obj(<<>>), n + 1)
                   ELSE ParseMembers(s, i + 1, <<>>)
              [] s[i] = "[" ->
                   IF n <= Len(s) /\ s[n] = "]" THEN ParseOk(Arr(<<>>), n + 1)
                   ELSE ParseElements(s, i + 1, <<>>)
              [] s[i] = chQuote -> ParseString(s, i)
              [] s[i] = "n" -> ParseLiteral(s, i, <<"n", "u", "l", "l">>, Null)
              [] s[i] = "t" -> ParseLiteral(s, i, <<"t", "r", "u", "e">>, Bool(TRUE))
              [] s[i] = "f" -> ParseLiteral(s, i, <<"f", "a", "l", "s", "e">>, Bool(FALSE))
              [] OTHER -> ParseNumber(s, i)

\* JSON.parse(s): [ok |-> FALSE] stands for the SyntaxError it throws
JSONparse(s) ==
    LET v == ParseValue(s, 1)
    IN IF v.ok /\ SkipWs(s, v.i) = Len(s) + 1 THEN v ELSE ParseFail

\* String(v), the conversion JSON.parse applies to an argument that is no string
StringOf(v) ==
    CASE v.t = "str" -> v.s
      [] v.t = "undefined" -> <<"u", "n", "d", "e", "f", "i", "n", "e", "d">>
      [] v.t = "null" -> <<"n", "u", "l", "l">>
      [] v.t = "bool" -> IF v.b THEN <<"t", "r", "u", "e">> ELSE <<"f", "a", "l", "s", "e">>

(***************************************************************************)
(* Response normaliser                                                     *)
(***************************************************************************)
Markers == {chBullet, "-", "*"}
MaxPoints == 5
MinFlowLen == 20
PointPreview == 50
FlowPreview == 200

\* line.startsWith(m) for one of the three markers
isBullet(line) == line # <<>> /\ line[1] \in Markers

\* line.replace(/^[marker]\s*/, "").trim() for a bullet line
stripBullet(line) == trim(SubSeq(line, SkipWs(line, 2), Len(line)))

\* mutant: the !detailed_flow test is missing, so a later line replaces it
scanLineLastWins(st, line) ==
    IF isBullet(line)
    THEN [st EXCEPT !.summary_points = Append(@, stripBullet(line))]
    ELSE IF Len(line) > MinFlowLen
    THEN [st EXCEPT !.detailed_flow = trim(line)]
    ELSE st

\* the body of the for loop: the state is [summary_points, detailed_flow]
scanLine(st, line) ==
    IF isBullet(line)
    THEN [st EXCEPT !.summary_points = Append(@, stripBullet(line))]
    ELSE IF Len(line) > MinFlowLen /\ st.detailed_flow = <<>>
    THEN [st EXCEPT !.detailed_flow = trim(line)]
    ELSE st

RECURSIVE scanLines(_, _)
scanLines(st, lines) ==
    IF lines = <<>> THEN st ELSE scanLines(scanLine(st, Head(lines)), Tail(lines))

\* the summary_points the heuristic returns
textPoints(points, text) ==
    IF Len(points) > 0 THEN SubSeq(points, 1, MinOf(MaxPoints, Len(points)))
    ELSE <<substring(text, 0, PointPreview) \o Ellipsis>>

\* mutant: the preview of detailed_flow is cut like that of a summary point
textFlowShort(flow, text) ==
    IF flow # <<>> THEN flow ELSE substring(text, 0, PointPreview) \o Ellipsis

\* the detailed_flow the heuristic returns
textFlow(flow, text) ==
    IF flow # <<>> THEN flow ELSE substring(text, 0, FlowPreview) \o Ellipsis

HeuristicConfidence == Num(8, 1)

strings(a) == [i \in 1..Len(a) |-> Str(a[i])]

\* parseTextResponse(text) for a string text
parseTextResponse(text) ==
    LET lines == filterNonBlank(split(text))
        st == scanLines([summary_points |-> <<>>, detailed_flow |-> <<>>], lines)
    IN Obj(<<Prop(kSummaryPoints, Arr(strings(textPoints(st.summary_points, text)))),
             Prop(kDetailedFlow, Str(textFlow(st.detailed_flow, text))),
             Prop(kConfidence, HeuristicConfidence)>>)

\* the record of the catch block
FallbackRecord ==
    [summary_points |-> Arr(<<Str(sErrorProcessing)>>),
     detailed_flow |-> Str(sUnableToFormat),
     confidence |-> Num(5, 1),
     mobile_optimized |-> TRUE]

DefaultPoints == Arr(<<Str(sResponseReceived)>>)
DefaultConfidence == Num(8, 1)

\* whether claudeResponse.content[0].text throws
extractThrows(claudeResponse) ==
    \/ GetThrows(claudeResponse)
    \/ GetThrows(Get(claudeResponse, kContent))
    \/ GetThrows(First(Get(claudeResponse, kContent)))

extractText(claudeResponse) == Get(First(Get(claudeResponse, kContent)), kText)

\* the default of detailed_flow: content.substring throws unless content is a string
flowDefault(content) == Str(substring(content.s, 0, FlowPreview) \o Ellipsis)

mergeConfidence(parsedContent) == Or(Get(parsedContent, kConfidence), DefaultConfidence)

mergePoints(parsedContent) == Or(Get(parsedContent, kSummaryPoints), DefaultPoints)

\* the object literal of the return statement, for values that do not throw
merge(parsedContent, content) ==
    [summary_points |-> mergePoints(parsedContent),
     detailed_flow |-> Or(Get(parsedContent, kDetailedFlow), flowDefault(content)),
     code_snippets |-> Get(parsedContent, kCodeSnippets),
     confidence |-> mergeConfidence(parsedContent),
     mobile_optimized |-> TRUE]

\* mutant: the merge reads parsedContent with optional chaining
bodyThrowsGuarded(content) == content.t # "str"

\* whether the statements after the extraction throw: parseTextResponse calls
\* text.split, the merge reads properties of parsedContent and, when
\* detailed_flow is falsy, calls content.substring
bodyThrows(content) ==
    LET json == JSONparse(StringOf(content))
    IN IF ~json.ok THEN content.t # "str"
       ELSE \/ GetThrows(json.v)
            \/ ~Truthy(Get(json.v, kDetailedFlow)) /\ content.t # "str"

formatThrows(claudeResponse) ==
    extractThrows(claudeResponse) \/ bodyThrows(extractText(claudeResponse))

formatForMobile(claudeResponse) ==
    IF formatThrows(claudeResponse) THEN FallbackRecord
    ELSE LET content == extractText(claudeResponse)
             json == JSONparse(StringOf(content))
             parsedContent == IF json.ok THEN json.v ELSE parseTextResponse(content.s)
         IN merge(parsedContent, content)

(***************************************************************************)
(* callClaude                                                              *)
(***************************************************************************)
DefaultRetryAfter == 60

\* parseInt(v) for a string of decimal digits or a number (no hex prefix)
parseInt(v) ==
    IF v.t = "num" THEN v
    ELSE LET s == v.s
             i == SkipWs(s, 1)
             signed == i <= Len(s) /\ s[i] \in {"-", "+"}
             a == IF signed THEN i + 1 ELSE i
             b == DigitsEnd(s, a)
             n == DigitsVal(s, a, b, 0)
         IN IF b = a THEN NaN
            ELSE IntNum(IF signed /\ s[i] = "-" THEN 0 - n ELSE n)

\* the error axios rejects with: response is absent on a transport failure
AxiosError(hasResponse, status, retryAfter, code) ==
    [hasResponse |-> hasResponse, status |-> status, retryAfter |-> retryAfter,
     code |-> code]

\* the TypeError thrown inside the try block: it has no response and no code
TypeError == AxiosError(FALSE, 0, Undefined, "undefined")

Thrown(code, retryAfter) == [code |-> code, retryAfter |-> retryAfter]

\* error.response.headers["retry-after"] || 60, then parseInt
retryAfterOf(error) == parseInt(Or(error.retryAfter, IntNum(DefaultRetryAfter)))

\* the catch block of callClaude: the object it throws
classify(error) ==
    IF error.hasResponse /\ error.status = 429
    THEN Thrown("RATE_LIMIT_EXCEEDED", retryAfterOf(error))
    ELSE IF error.hasResponse /\ error.status = 400
    THEN Thrown("INVALID_REQUEST", Undefined)
    ELSE IF error.hasResponse /\ error.status = 401
    THEN Thrown("AUTHENTICATION_ERROR", Undefined)
    ELSE IF error.code = "ECONNABORTED"
    THEN Thrown("TIMEOUT", Undefined)
    ELSE Thrown("UNKNOWN_ERROR", Undefined)

\* callClaude after the await: outcome is what axios.post settled with.  The
\* log statement reads response.data.model, which throws when the body is
\* empty, and that TypeError is caught by the same catch block.
callClaude(outcome) ==
    IF outcome.kind = "resolve"
    THEN IF GetThrows(outcome.data)
         THEN [threw |-> TRUE, error |-> classify(TypeError)]
         ELSE [threw |-> FALSE, data |-> outcome.data]
    ELSE [threw |-> TRUE, error |-> classify(outcome.error)]

(***************************************************************************)
(* POST /api/query                                                         *)
(***************************************************************************)
PromptLimit == 10000

\* a prompt string is kept as its length, the only thing the handler reads
PromptStr(n) == [t |-> "str", length |-> n]

\* !prompt || typeof prompt !== "string"
invalidPrompt(prompt) ==
    IF prompt.t = "str" THEN prompt.length = 0 ELSE TRUE

\* mutant: the limit is taken to be exclusive
promptTooLongInclusive(prompt) == prompt.length >= PromptLimit

\* prompt.length > 10000
promptTooLong(prompt) == prompt.length > PromptLimit

ErrorResponse(status, message, code) ==
    [status |-> status, body |-> [error |-> message, code |-> code]]

RateLimitResponse(retryAfter) ==
    [status |-> 429,
     body |-> [error |-> "Rate limit exceeded. Please try again later.",
               code |-> "RATE_LIMIT_EXCEEDED",
               retryAfter |-> retryAfter]]

SuccessResponse(data) ==
    [status |-> 200, body |-> [success |-> TRUE, data |-> data, timestamp |-> "now"]]

\* the responses the validation sends: empty when the prompt passes
validate(prompt) ==
    IF invalidPrompt(prompt)
    THEN <<ErrorResponse(400, "Invalid or missing prompt", "INVALID_PROMPT")>>
    ELSE IF promptTooLong(prompt)
    THEN <<ErrorResponse(400, "Prompt too long (max 10000 characters)", "PROMPT_TOO_LONG")>>
    ELSE <<>>

\* error.retryAfter || 60
retryAfterSent(error) == Or(error.retryAfter, IntNum(DefaultRetryAfter))

\* mutant: the rate-limit branch lacks its return and falls through
catchResponsesNoReturn(error) ==
    IF error.code = "RATE_LIMIT_EXCEEDED"
    THEN <<RateLimitResponse(retryAfterSent(error)),
           ErrorResponse(500, "Internal server error", "INTERNAL_ERROR")>>
    ELSE IF error.code = "INVALID_REQUEST"
    THEN <<ErrorResponse(400, "Invalid request format or parameters", "INVALID_REQUEST")>>
    ELSE IF error.code = "AUTHENTICATION_ERROR"
    THEN <<ErrorResponse(401, "Authentication failed", "AUTHENTICATION_ERROR")>>
    ELSE IF error.code = "TIMEOUT"
    THEN <<ErrorResponse(504, "Request timeout", "TIMEOUT")>>
    ELSE <<ErrorResponse(500, "Internal server error", "INTERNAL_ERROR")>>

\* mutant: the TIMEOUT branch is missing
catchResponsesNoTimeout(error) ==
    IF error.code = "RATE_LIMIT_EXCEEDED"
    THEN <<RateLimitResponse(retryAfterSent(error))>>
    ELSE IF error.code = "INVALID_REQUEST"
    THEN <<ErrorResponse(400, "Invalid request format or parameters", "INVALID_REQUEST")>>
    ELSE IF error.code = "AUTHENTICATION_ERROR"
    THEN <<ErrorResponse(401, "Authentication failed", "AUTHENTICATION_ERROR")>>
    ELSE <<ErrorResponse(500, "Internal server error", "INTERNAL_ERROR")>>

\* the responses the handler's catch block sends, in order
catchResponses(error) ==
    IF error.code = "RATE_LIMIT_EXCEEDED"
    THEN <<RateLimitResponse(retryAfterSent(error))>>
    ELSE IF error.code = "INVALID_REQUEST"
    THEN <<ErrorResponse(400, "Invalid request format or parameters", "INVALID_REQUEST")>>
    ELSE IF error.code = "AUTHENTICATION_ERROR"
    THEN <<ErrorResponse(401, "Authentication failed", "AUTHENTICATION_ERROR")>>
    ELSE IF error.code = "TIMEOUT"
    THEN <<ErrorResponse(504, "Request timeout", "TIMEOUT")>>
    ELSE <<ErrorResponse(500, "Internal server error", "INTERNAL_ERROR")>>

\* the data of the success envelope
successData(claudeResponse) == formatForMobile(claudeResponse)

\* the responses the try/catch of the handler sends once callClaude settled
settle(result) ==
    IF result.threw THEN catchResponses(result.error)
    ELSE <<SuccessResponse(successData(result.data))>>

NoError == Thrown("NONE", Undefined)
NoOutcome == [kind |-> "none"]
NoBody == [prompt |-> Undefined]

Init ==
    /\ pc = "idle"
    /\ body = NoBody
    /\ calls = 0
    /\ upstream = NoOutcome
    /\ thrown = NoError
    /\ responses = <<>>

\* the handler up to the await: validation, then axios.post is issued
Receive(b) ==
    /\ pc = "idle"
    /\ body' = b
    /\ responses' = responses \o validate(b.prompt)
    /\ IF validate(b.prompt) # <<>>
       THEN /\ pc' = "done"
            /\ thrown' = Thrown(validate(b.prompt)[1].body.code, Undefined)
            /\ calls' = calls
       ELSE /\ pc' = "awaiting"
            /\ thrown' = thrown
            /\ calls' = calls + 1
    /\ UNCHANGED upstream

\* the handler from the await on, axios.post having settled with outcome
Settle(outcome) ==
    /\ pc = "awaiting"
    /\ upstream' = outcome
    /\ LET result == callClaude(outcome)
       IN /\ thrown' = IF result.threw THEN result.error ELSE thrown
          /\ responses' = responses \o settle(result)
    /\ pc' = "done"
    /\ UNCHANGED <<body, calls>>

\* axios.post resolved: a 2xx answer whose body is data
Resolve(data) == Settle([kind |-> "resolve", data |-> data])

\* axios.post rejected with the HTTP status of the answer
RejectStatus(status, retryAfter) ==
    Settle([kind |-> "reject", error |-> AxiosError(TRUE, status, retryAfter, "ERR_BAD_REQUEST")])

\* axios.post rejected without an answer: the 30 s timeout (ECONNABORTED) or
\* another transport failure
RejectTransport(code) ==
    Settle([kind |-> "reject", error |-> AxiosError(FALSE, 0, Undefined, code)])

\* the request is over; the server takes the next one
Finish ==
    /\ pc = "done"
    /\ pc' = "idle"
    /\ body' = NoBody
    /\ calls' = 0
    /\ upstream' = NoOutcome
    /\ thrown' = NoError
    /\ responses' = <<>>

(***************************************************************************)
(* Inputs                                                                  *)
(***************************************************************************)
MaxLines == 3
MaxBullets == 6
MaxHeaderLen == 2

Rep(n, c) == [i \in 1..n |-> c]

DigitChar(n) ==
    CASE n = 0 -> "0" [] n = 1 -> "1" [] n = 2 -> "2" [] n = 3 -> "3"
      [] n = 4 -> "4" [] n = 5 -> "5" [] n = 6 -> "6" [] n = 7 -> "7"
      [] n = 8 -> "8" [] n = 9 -> "9"

RECURSIVE IntChars(_)
IntChars(n) == IF n < 10 THEN <<DigitChar(n)>> ELSE IntChars(n \div 10) \o <<DigitChar(n % 10)>>

RECURSIVE FracChars(_, _)
FracChars(f, d) == IF d = 0 THEN <<>> ELSE FracChars(f \div 10, d - 1) \o <<DigitChar(f % 10)>>

RECURSIVE Pow10(_)
Pow10(d) == IF d = 0 THEN 1 ELSE 10 * Pow10(d - 1)

NumChars(m, d) ==
    LET abs == IF m < 0 THEN 0 - m ELSE m
    IN (IF m < 0 THEN <<"-">> ELSE <<>>) \o IntChars(abs \div Pow10(d))
       \o (IF d = 0 THEN <<>> ELSE <<".">> \o FracChars(abs % Pow10(d), d))

\* JSON.stringify(v): the text an upstream model writes for the value v
RECURSIVE Stringify(_)
RECURSIVE StringifyAll(_, _)
StringifyAll(items, i) ==
    IF i > Len(items) THEN <<>>
    ELSE (IF i > 1 THEN <<",">> ELSE <<>>) \o items[i] \o StringifyAll(items, i + 1)

Stringify(v) ==
    CASE v.t = "null" -> <<"n", "u", "l", "l">>
      [] v.t = "bool" -> IF v.b THEN <<"t", "r", "u", "e">> ELSE <<"f", "a", "l", "s", "e">>
      [] v.t = "num" -> NumChars(v.m, v.d)
      [] v.t = "str" -> <<chQuote>> \o v.s \o <<chQuote>>
      [] v.t = "arr" ->
           <<"[">> \o StringifyAll([i \in 1..Len(v.a) |-> Stringify(v.a[i])], 1) \o <<"]">>
      [] v.t = "obj" ->
           <<"{">> \o StringifyAll([i \in 1..Len(v.o) |->
                        <<chQuote>> \o v.o[i].k \o <<chQuote, ":">> \o Stringify(v.o[i].v)], 1)
           \o <<"}">>

Letters == <<"A", "B", "C", "D", "E", "F", "G", "H">>
Letter(i) == Letters[((i - 1) % Len(Letters)) + 1]

PointsOptions ==
    {<<>>, <<Null>>, <<Str(<<"s">>)>>}
    \cup {<<Arr([i \in 1..n |-> Str(<<Letter(i)>>)])>> : n \in {0, 1, 2, MaxPoints, MaxPoints + 1}}

FlowOptions == {<<>>, <<Str(<<>>)>>, <<Str(<<"d", "f">>)>>}

SnippetOptions == {<<>>, <<Arr(<<Str(<<"c">>)>>)>>}

ConfidenceOptions ==
    {<<>>, <<Str(<<"h", "i">>)>>}
    \cup {<<Num(0, 0)>>, <<Num(5, 1)>>, <<Num(85, 2)>>, <<Num(1, 0)>>, <<Num(15, 1)>>,
          <<Num(5, 0)>>, <<Num(-1, 0)>>}

\* the property named k when the option holds a value, no property otherwise
Optional(k, option) == IF option = <<>> THEN <<>> ELSE <<Prop(k, option[1])>>

JsonObjects ==
    {Obj(Optional(kSummaryPoints, p) \o Optional(kDetailedFlow, f)
         \o Optional(kCodeSnippets, c) \o Optional(kConfidence, k)) :
        p \in PointsOptions, f \in FlowOptions, c \in SnippetOptions,
        k \in ConfidenceOptions}

JsonTexts == {Stringify(o) : o \in JsonObjects}

\* texts that are JSON but no object, JSON with white space, and broken JSON
ExampleText ==
    <<chBullet, " ", "A", chNewline, chBullet, " ", "B", chNewline>>
    \o <<"S", "o", "m", "e", " ", "l", "o", "n", "g", " ", "e", "x", "p", "l", "a", "n", "a", "t", "o", "r", "y", " ", "l", "i", "n", "e", " ", "h", "e", "r", "e", " ", "t", "h", "a", "t", " ", "e", "x", "c", "e", "e", "d", "s", " ", "t", "w", "e", "n", "t", "y", " ", "c", "h", "a", "r", "s">>
    \o <<chNewline, chBullet, " ", "C">>

OddTexts ==
    {ExampleText, <<>>, <<" ">>, <<"n", "u", "l", "l">>, <<"t", "r", "u", "e">>, <<"5">>, <<"-", "5">>,
     <<"[", "]">>, <<"{">>, <<"{", "}", "x">>, <<chQuote, "s", chQuote>>,
     <<" ", "{", "\n", chQuote, "c", "o", "n", "f", "i", "d", "e", "n", "c", "e", chQuote,
       " ", ":", " ", "2", " ", "}", "\n">>}

LineKinds ==
    << <<chBullet, " ", "A">>,
       <<"-", " ", "B", " ">>,
       <<"*", "C">>,
       <<" ", " ">> \o Rep(MinFlowLen + 1, "d") \o <<" ">>,
       Rep(MinFlowLen + 2, "e"),
       <<"a", "b">>,
       <<" ", " ">>,
       <<"-">> \o Rep(MinFlowLen + 4, "f"),
       Rep(MinFlowLen, "g"),
       <<"h">> \o Rep(MinFlowLen, " ") >>

RECURSIVE JoinLines(_, _)
JoinLines(lines, i) ==
    IF i > Len(lines) THEN <<>>
    ELSE (IF i > 1 THEN <<chNewline>> ELSE <<>>) \o lines[i] \o JoinLines(lines, i + 1)

\* every text of at most MaxLines lines, each of one of the kinds
LineTexts ==
    UNION {{JoinLines([i \in 1..n |-> LineKinds[f[i]]], 1) : f \in [1..n -> 1..Len(LineKinds)]} :
           n \in 0..MaxLines}

BulletLine(i) ==
    <<CASE i % 3 = 1 -> chBullet [] i % 3 = 2 -> "-" [] OTHER -> "*">> \o <<" ", Letter(i)>>

\* n bullet lines with one long line after the first p of them
BulletTexts ==
    {JoinLines([i \in 1..(n + 1) |->
                   IF i <= p THEN BulletLine(i)
                   ELSE IF i = p + 1 THEN LineKinds[5]
                   ELSE BulletLine(i - 1)], 1) :
        n \in 0..MaxBullets, p \in 0..MaxBullets}

\* texts of len characters in lines of w characters, each line starting with lead
LongText(len, w, lead) ==
    [i \in 1..len |->
        IF i % (w + 1) = 0 THEN chNewline
        ELSE IF i % (w + 1) = 1 THEN lead
        ELSE Letter(i)]

LongTexts ==
    {LongText(len, w, lead) :
        len \in {FlowPreview - 1, 300}, w \in {7, MinFlowLen, MinFlowLen + 1, 150, 300},
        lead \in {"a", " "}}

Texts == JsonTexts \cup OddTexts \cup LineTexts \cup BulletTexts \cup LongTexts

\* the body of a 2xx answer whose first content block holds text
Payload(text) == Obj(<<Prop(kContent, Arr(<<Obj(<<Prop(kText, text)>>)>>))>>)

Payloads ==
    {Undefined, Obj(<<>>), Obj(<<Prop(kContent, Arr(<<>>))>>),
     Payload(Undefined), Payload(Null), Payload(Bool(TRUE))}
    \cup {Payload(Str(text)) : text \in Texts}

HeaderChars == {"0", "1", "2", "-", "s"}

\* the retry-after header: absent, or a string of at most MaxHeaderLen characters
RetryHeaders ==
    {Undefined} \cup {Str(h) : h \in UNION {[1..n -> HeaderChars] : n \in 0..MaxHeaderLen}}

Statuses == {400, 401, 403, 429, 500, 529}

TransportCodes == {"ECONNABORTED", "ECONNREFUSED", "ETIMEDOUT"}

Prompts ==
    {Undefined, Null, IntNum(0), IntNum(5), Bool(TRUE), Arr(<<>>)}
    \cup {PromptStr(n) : n \in {0, 1, PromptLimit, PromptLimit + 1, 2 * PromptLimit}}

Bodies == {[prompt |-> p] : p \in Prompts}

Next ==
    \/ \E b \in Bodies : Receive(b)
    \/ \E data \in Payloads : Resolve(data)
    \/ \E status \in Statuses, h \in RetryHeaders : RejectStatus(status, h)
    \/ \E code \in TransportCodes : RejectTransport(code)
    \/ Finish

Spec == Init /\ [][Next]_vars

(***************************************************************************)
(* Properties                                                              *)
(***************************************************************************)
Done == pc = "done"

\* the prompt is a non-empty string of at most 10,000 characters
AcceptablePrompt ==
    body.prompt.t = "str" /\ body.prompt.length >= 1 /\ body.prompt.length <= 10000

ErrorKinds ==
    {"INVALID_PROMPT", "PROMPT_TOO_LONG", "RATE_LIMIT_EXCEEDED", "INVALID_REQUEST",
     "AUTHENTICATION_ERROR", "TIMEOUT", "UNKNOWN_ERROR", "INTERNAL_ERROR"}

SummaryFields ==
    {"summary_points", "detailed_flow", "code_snippets", "confidence", "mobile_optimized"}

IsSummary(d) ==
    /\ DOMAIN d \subseteq SummaryFields
    /\ SummaryFields \ {"code_snippets"} \subseteq DOMAIN d
    /\ d.mobile_optimized = TRUE

IsSuccessEnvelope(r) ==
    /\ DOMAIN r.body = {"success", "data", "timestamp"}
    /\ r.body.success = TRUE
    /\ IsSummary(r.body.data)

IsClassifiedError(r) ==
    /\ {"error", "code"} \subseteq DOMAIN r.body
    /\ DOMAIN r.body \subseteq {"error", "code", "retryAfter"}
    /\ r.body.code \in ErrorKinds

\* C1: a request with an acceptable prompt is answered exactly once, whatever
\* the upstream call does: nothing is sent while the call is pending, and once
\* the handler is over the one response is the success envelope around a
\* summary record (never the upstream payload itself) or a classified error.
C1_ExactlyOneResponse ==
    /\ Len(responses) <= 1
    /\ pc = "awaiting" => responses = <<>>
    /\ (Done /\ AcceptablePrompt) =>
          /\ Len(responses) = 1
          /\ IsSuccessEnvelope(responses[1]) \/ IsClassifiedError(responses[1])
          /\ IsSuccessEnvelope(responses[1]) =>
                /\ upstream.kind = "resolve"
                /\ responses[1].body.data # upstream.data
          /\ upstream.kind = "reject" => IsClassifiedError(responses[1])

C1_Witness ==
    /\ Done
    /\ body.prompt = PromptStr(10000)
    /\ upstream.kind = "resolve"
    /\ Len(responses) = 1
    /\ IsSuccessEnvelope(responses[1])
    /\ "code_snippets" \in DOMAIN responses[1].body.data

StatusOf(kind) ==
    CASE kind \in {"INVALID_PROMPT", "PROMPT_TOO_LONG", "INVALID_REQUEST"} -> 400
      [] kind = "AUTHENTICATION_ERROR" -> 401
      [] kind = "RATE_LIMIT_EXCEEDED" -> 429
      [] kind = "TIMEOUT" -> 504
      [] kind \in {"INTERNAL_ERROR", "UNKNOWN_ERROR"} -> 500

Failed == Done /\ thrown.code # "NONE"

\* C3 as stated: a failed request is answered with the code of the error that
\* was produced for it and with the status fixed for that kind.
C3_CodeIsKind ==
    Failed =>
        /\ Len(responses) = 1
        /\ responses[1].body.code = thrown.code
        /\ responses[1].status = StatusOf(thrown.code)

\* C3 amended: a failed request is answered with the code of the error that was
\* produced for it, except that UNKNOWN_ERROR is answered as INTERNAL_ERROR; the
\* status is the one fixed for the kind, and an upstream call aborted at the
\* timeout is answered 504 TIMEOUT.
C3_CodeIsKindUnknownAsInternal ==
    /\ Failed =>
          /\ Len(responses) = 1
          /\ responses[1].body.code =
                (IF thrown.code = "UNKNOWN_ERROR" THEN "INTERNAL_ERROR" ELSE thrown.code)
          /\ responses[1].status = StatusOf(thrown.code)
    /\ (Done /\ upstream.kind = "reject" /\ ~upstream.error.hasResponse
            /\ upstream.error.code = "ECONNABORTED") =>
          /\ thrown.code = "TIMEOUT"
          /\ responses[1].status = 504

C3_Witness ==
    /\ Failed
    /\ thrown.code = "UNKNOWN_ERROR"
    /\ responses[1].body.code = "INTERNAL_ERROR"
    /\ responses[1].status = 500

\* C4: validation precedes the outbound call.  A prompt that is missing, empty
\* or no string is answered 400 INVALID_PROMPT and a string of more than 10,000
\* characters 400 PROMPT_TOO_LONG, both without any outbound call; a prompt of
\* exactly 10,000 characters reaches the outbound call.
C4_ValidationBeforeCall ==
    pc # "idle" =>
        /\ (body.prompt.t # "str" \/ body.prompt.length = 0) =>
              /\ Done /\ calls = 0 /\ upstream = NoOutcome
              /\ Len(responses) = 1
              /\ responses[1].status = 400
              /\ responses[1].body.code = "INVALID_PROMPT"
        /\ (body.prompt.t = "str" /\ body.prompt.length > 10000) =>
              /\ Done /\ calls = 0 /\ upstream = NoOutcome
              /\ Len(responses) = 1
              /\ responses[1].status = 400
              /\ responses[1].body.code = "PROMPT_TOO_LONG"
        /\ (body.prompt.t = "str" /\ body.prompt.length = 10000) =>
              /\ calls = 1
              /\ thrown.code \notin {"INVALID_PROMPT", "PROMPT_TOO_LONG"}

C4_Witness ==
    /\ Done
    /\ body.prompt = PromptStr(10001)
    /\ calls = 0
    /\ responses[1].body.code = "PROMPT_TOO_LONG"

IsNumeral(h) == h.t = "str" /\ h.s # <<>> /\ \A i \in 1..Len(h.s) : h.s[i] \in Digits

\* C5: an upstream 429 is classified RATE_LIMIT_EXCEEDED with retryAfter the
\* number of seconds of the retry-after header when the header is present (0
\* included) and 60 when it is absent, and the 429 response carries that value.
C5_RetryAfterFromHeader ==
    (Done /\ upstream.kind = "reject" /\ upstream.error.hasResponse
        /\ upstream.error.status = 429) =>
        LET h == upstream.error.retryAfter
            expected == IF h = Undefined THEN IntNum(60)
                        ELSE IntNum(DigitsVal(h.s, 1, Len(h.s) + 1, 0))
        IN /\ thrown.code = "RATE_LIMIT_EXCEEDED"
           /\ responses[1].status = 429
           /\ (h = Undefined \/ IsNumeral(h)) =>
                 /\ thrown.retryAfter = expected
                 /\ responses[1].body.retryAfter = expected

\* formatForMobile ran: the upstream call resolved and callClaude returned
Formatted == Done /\ upstream.kind = "resolve" /\ thrown.code = "NONE"

Data == responses[1].body.data

\* claudeResponse.content[0].text can be read
CanExtract(p) ==
    /\ p.t = "obj"
    /\ Get(p, kContent).t \notin {"undefined", "null"}
    /\ First(Get(p, kContent)).t \notin {"undefined", "null"}

\* the first content block holds a text
IsTextPayload(p) == CanExtract(p) /\ Get(First(Get(p, kContent)), kText).t = "str"

Text == Get(First(Get(upstream.data, kContent)), kText).s

\* C2: for a payload whose first content block holds any text, the record has
\* a list of 1 to 5 summary points and mobile_optimized true.
C2_Total ==
    (Formatted /\ IsTextPayload(upstream.data)) =>
        /\ Data.mobile_optimized = TRUE
        /\ Data.summary_points.t = "arr"
        /\ Len(Data.summary_points.a) >= 1
        /\ Len(Data.summary_points.a) <= 5

Has(v, k) == \E i \in 1..Len(v.o) : v.o[i].k = k

InUnitRange(v) == v.t = "num" /\ 0 <= v.m /\ v.m <= Pow10(v.d)

\* a JSON object with a list of strings as summary_points, a non-empty string
\* as detailed_flow, and optionally code_snippets and a confidence in [0,1]
ExpectedShape(v) ==
    /\ v.t = "obj"
    /\ Has(v, kSummaryPoints)
    /\ Get(v, kSummaryPoints).t = "arr"
    /\ \A i \in 1..Len(Get(v, kSummaryPoints).a) : Get(v, kSummaryPoints).a[i].t = "str"
    /\ Has(v, kDetailedFlow)
    /\ Get(v, kDetailedFlow).t = "str"
    /\ Get(v, kDetailedFlow).s # <<>>
    /\ Has(v, kConfidence) => InUnitRange(Get(v, kConfidence))

\* C7: a JSON object of the expected shape comes back with every supplied
\* field unchanged (a confidence of 0 included), the default only for an omitted
\* field, code_snippets absent when not supplied, and mobile_optimized true.
C7_JsonRoundTrip ==
    (Formatted /\ IsTextPayload(upstream.data) /\ JSONparse(Text).ok
        /\ ExpectedShape(JSONparse(Text).v)) =>
        LET v == JSONparse(Text).v
        IN /\ Data.summary_points = Get(v, kSummaryPoints)
           /\ Data.detailed_flow = Get(v, kDetailedFlow)
           /\ Data.code_snippets = Get(v, kCodeSnippets)
           /\ Data.confidence =
                 (IF Has(v, kConfidence) THEN Get(v, kConfidence) ELSE Num(8, 1))
           /\ Data.mobile_optimized = TRUE

\* C8: the confidence of every record is a number in [0,1]: 0.8 on the
\* heuristic path, 0.5 on the fallback path, within [0,1] on the JSON path.
C8_ConfidenceInRange ==
    Formatted =>
        /\ InUnitRange(Data.confidence)
        /\ "code_snippets" \notin DOMAIN Data => Data.confidence = Num(5, 1)
        /\ (IsTextPayload(upstream.data) /\ ~JSONparse(Text).ok) =>
              Data.confidence = Num(8, 1)

\* C9 as stated: the fallback record is returned only when the extraction of
\* the first content block's text faulted, and never for a payload that holds a
\* text.
C9_FallbackOnlyOnExtractFault ==
    Formatted =>
        /\ Data = FallbackRecord => ~CanExtract(upstream.data)
        /\ IsTextPayload(upstream.data) => Data # FallbackRecord

ParsesToNull(text) == JSONparse(text).ok /\ JSONparse(text).v = Null

\* C9 amended: the fallback record is returned whenever the extraction faults;
\* when the extraction yields a text, it is returned exactly when that text is
\* the JSON literal null, and every other text gives a record built by the JSON
\* or heuristic path, which has the code_snippets property.
C9_FallbackOnAnyFault ==
    Formatted =>
        /\ ~CanExtract(upstream.data) => Data = FallbackRecord
        /\ IsTextPayload(upstream.data) =>
              /\ Data = FallbackRecord <=> ParsesToNull(Text)
              /\ ~ParsesToNull(Text) => "code_snippets" \in DOMAIN Data

C9_Witness ==
    /\ Formatted
    /\ IsTextPayload(upstream.data)
    /\ Text = <<"n", "u", "l", "l">>
    /\ Data = FallbackRecord

StartsWithMarker(line) == line # <<>> /\ line[1] \in {chBullet, "-", "*"}

NonBlankLine(line) == trim(line) # <<>>

\* a line that is not a bullet line and is longer than 20 characters
FlowLine(line) == ~StartsWithMarker(line) /\ Len(line) > 20

HeuristicText == Formatted /\ IsTextPayload(upstream.data) /\ ~JSONparse(Text).ok

\* a 300-character text that is not JSON and has no bullet line
TruncationCase ==
    /\ HeuristicText
    /\ Len(Text) = 300
    /\ \A i \in 1..Len(split(Text)) : ~StartsWithMarker(split(Text)[i])

\* C6 as stated: such a text gives detailed_flow = its first 200 characters
\* and "...", and one summary point, its first 50 characters and "...".
C6_Truncation ==
    TruncationCase =>
        /\ Data.detailed_flow = Str(SubSeq(Text, 1, 200) \o Ellipsis)
        /\ Data.summary_points = Arr(<<Str(SubSeq(Text, 1, 50) \o Ellipsis)>>)

\* C6 amended: such a text gives one summary point, its first 50 characters
\* and "..."; detailed_flow is its first 200 characters and "..." only when no
\* non-blank line is longer than 20 characters, and otherwise the first such
\* line, trimmed and not cut.
C6_TruncationUnlessLongLine ==
    TruncationCase =>
        LET flows == SelectSeq(SelectSeq(split(Text), NonBlankLine), FlowLine)
        IN /\ Data.summary_points = Arr(<<Str(SubSeq(Text, 1, 50) \o Ellipsis)>>)
           /\ Data.detailed_flow =
                 (IF flows = <<>> THEN Str(SubSeq(Text, 1, 200) \o Ellipsis)
                  ELSE Str(trim(flows[1])))

C6_Witness ==
    /\ TruncationCase
    /\ SelectSeq(split(Text), FlowLine) = <<>>
    /\ Len(Data.detailed_flow.s) = 203
    /\ Len(Data.summary_points.a[1].s) = 53

\* C10 as stated: on a text that is not JSON, with blank lines discarded, the
\* summary points are the first (at most 5) bullet lines in source order, each
\* with the marker and the white space after it stripped; detailed_flow is the
\* first line in source order that is no bullet line and is longer than 20
\* characters.
C10_Heuristic ==
    HeuristicText =>
        LET lines == SelectSeq(split(Text), NonBlankLine)
            bullets == SelectSeq(lines, StartsWithMarker)
            flows == SelectSeq(lines, FlowLine)
        IN /\ bullets # <<>> =>
                 Data.summary_points =
                     Arr([i \in 1..MinOf(5, Len(bullets)) |->
                             Str(SubSeq(bullets[i], SkipWs(bullets[i], 2), Len(bullets[i])))])
           /\ flows # <<>> => Data.detailed_flow = Str(flows[1])

\* C10 amended: on a text that is not JSON, with blank lines discarded, the
\* summary points are the first (at most 5) bullet lines in source order, each
\* without its marker and trimmed of the white space at both ends of the rest;
\* detailed_flow is the first line in source order that is no bullet line and
\* is longer than 20 characters, trimmed of the white space at both its ends; a
\* later such line never replaces it and it is never a bullet line.  The
\* example text gives the points A, B, C and the explanatory line.
C10_HeuristicTrimmed ==
    HeuristicText =>
        LET lines == SelectSeq(split(Text), NonBlankLine)
            bullets == SelectSeq(lines, StartsWithMarker)
            flows == SelectSeq(lines, FlowLine)
        IN /\ bullets # <<>> =>
                 Data.summary_points =
                     Arr([i \in 1..MinOf(5, Len(bullets)) |-> Str(trim(Tail(bullets[i])))])
           /\ flows # <<>> => Data.detailed_flow = Str(trim(flows[1]))
           /\ Text = ExampleText =>
                 /\ Data.summary_points = Arr(<<Str(<<"A">>), Str(<<"B">>), Str(<<"C">>)>>)
                 /\ Data.detailed_flow = Str(SubSeq(ExampleText, 9, Len(ExampleText) - 4))

C10_Witness ==
    /\ HeuristicText
    /\ Len(SelectSeq(split(Text), StartsWithMarker)) > 5
    /\ Len(SelectSeq(split(Text), FlowLine)) >= 1
    /\ ~StartsWithMarker(split(Text)[1])
    /\ Len(Data.summary_points.a) = 5

====
